---- MODULE Spec2Model ----
(***************************************************************************)
(* gluboard: a multi-user bulletin board reached over a raw TCP text       *)
(* connection.  One task per connection runs a Session; the sessions share *)
(* the Users and Messages collections of AppState, each behind its own     *)
(* tokio RwLock, and each saved to its own JSON file.                      *)
(*                                                                         *)
(* A step of the model is the code a task runs between two suspension      *)
(* points (.await on the socket, on a lock or on the file system) that     *)
(* another task can observe.  Guards of a lock that are dropped before the *)
(* next .await are taken and released inside one step; the read guard that *)
(* AppState::save holds over its file write is the variable rlock.         *)
(* The bytes save hands to write_all reach the file in a later step of the *)
(* blocking pool (wb), since save returns without a flush.                 *)
(***************************************************************************)
EXTENDS Integers, Sequences, FiniteSets, TLC

\* ------------------------------------------------------------------ bounds

\* Most users / messages the collections grow to in a checked run.
MaxUsers == 2
MaxMessages == 2
\* Most lines a message body is collected for.
MaxBodyLines == 1

\* ------------------------------------------------------------ input values

\* The connections main's accept loop is serving at one time.
Sessions == {"s1", "s2"}

\* What the clients of a run type and how far they fill the store: many
\* accounts and no post, or one account and many posts; and whether the
\* process is stopped and started again during the run (over a small store).
Workloads ==
    {[usernames |-> {"alice", "bob"}, passwords |-> {"pw1"},
      users |-> MaxUsers, messages |-> 0, restarts |-> FALSE],
     [usernames |-> {"alice"}, passwords |-> {"pw1", "pw2"},
      users |-> MaxUsers, messages |-> 0, restarts |-> FALSE],
     [usernames |-> {"alice"}, passwords |-> {"pw1"},
      users |-> 1, messages |-> MaxMessages, restarts |-> FALSE],
     [usernames |-> {"alice"}, passwords |-> {"pw1"},
      users |-> 1, messages |-> 1, restarts |-> TRUE]}

Subjects == {"Hi"}
BodyLines == {"Hello"}

\* What read_line + trim yields at end of stream: the empty string.
Eof == ""

\* The text of a ReadMessage reference, one character per element.
Digit == {"0", "1", "2", "3", "4", "5", "6", "7", "8", "9"}
RefTexts == {<<"0">>, <<"1">>, <<"2">>, <<"-", "1">>, <<"x">>}

\* A command line after split_whitespace: the name, then the arguments.
BlankLine == [name |-> "", args |-> <<>>, blank |-> TRUE]
Lines ==
    {[name |-> n, args |-> <<>>, blank |-> FALSE] :
        n \in {"login", "register", "quit", "help", "bogus", "message"}}
    \cup {[name |-> "msg", args |-> <<sub>>, blank |-> FALSE] :
        sub \in {"list", "new", "frob"}}
    \cup {[name |-> "messages", args |-> <<"read", t>>, blank |-> FALSE] :
        t \in RefTexts}
    \cup {[name |-> "message", args |-> <<"a", <<"b">>, "c">>, blank |-> FALSE],
          BlankLine}

\* --------------------------------------------------------------- the state

VARIABLES
    load,         \* the workload of the run
    users,        \* AppState.users: Vec<User>
    messages,     \* AppState.messages: Vec<Message>
    files,        \* users.json / messages.json on disk
    rlock,        \* per collection, the sessions holding its read guard
    status,       \* Session.login_status
    conn,         \* whether the peer still holds the connection open
    pc,           \* where each session's task is suspended
    loc,          \* the locals of the command a session is executing
    res,          \* what the command that just returned returned
    shown,        \* the message the command that just returned wrote out
    sent,         \* the lines the command in progress last wrote out
    wb,           \* per session, the file write its save left to the blocking pool
    proc          \* whether main is serving, or ended at startup

vars ==
    <<load, users, messages, files, rlock, status, conn, pc, loc, res, shown,
      sent, wb, proc>>

Kinds == {"Users", "Messages"}

LoggedOff == [tag |-> "Failure", username |-> ""]
LoggedOn(username) == [tag |-> "Success", username |-> username]
Disconnected == [tag |-> "Disconnected", username |-> ""]

\* The locals of a command: the command and the line that named it, the
\* answers prompted so far, the record built for the push, and the error the
\* body loop of "new" ended on without returning it.
NoLocals ==
    [cmd |-> "none", line |-> BlankLine, username |-> "", password |-> "",
     subject |-> "", body |-> <<>>, item |-> <<>>, dropped |-> "none"]

AbsentFile == [st |-> "absent", data |-> <<>>]
EmptyFile == [st |-> "truncated", data |-> <<>>]
JsonFile(data) == [st |-> "json", data |-> data]
\* A document overwritten from its start by a shorter one: the bytes of the
\* shorter document, then the tail of the longer one (data).
MalformedFile(data) == [st |-> "malformed", data |-> data]

\* AppState::from_file on a fresh directory, and no connection served yet.
Init ==
    /\ load \in Workloads
    /\ users = <<>>
    /\ messages = <<>>
    /\ files = [k \in Kinds |-> AbsentFile]
    /\ rlock = [k \in Kinds |-> {}]
    /\ status = [s \in Sessions |-> LoggedOff]
    /\ conn = [s \in Sessions |-> "open"]
    /\ pc = [s \in Sessions |-> "welcome"]
    /\ loc = [s \in Sessions |-> NoLocals]
    /\ res = [s \in Sessions |-> "none"]
    /\ shown = [s \in Sessions |-> <<>>]
    /\ sent = [s \in Sessions |-> <<>>]
    /\ wb = [s \in Sessions |-> <<>>]
    /\ proc = "running"

\* ------------------------------------------------------- pure functions

\* bcrypt::hash / bcrypt::verify: a hash verifies exactly the password it
\* was made from.
Hash(password) == <<"$2b$", password>>
Verify(password, hash) == hash = Hash(password)

DigitValue(c) ==
    CASE c = "0" -> 0 [] c = "1" -> 1 [] c = "2" -> 2 [] c = "3" -> 3
      [] c = "4" -> 4 [] c = "5" -> 5 [] c = "6" -> 6 [] c = "7" -> 7
      [] c = "8" -> 8 [] c = "9" -> 9

RECURSIVE DigitsValue(_)
DigitsValue(cs) ==
    IF cs = <<>> THEN 0
    ELSE 10 * DigitsValue(SubSeq(cs, 1, Len(cs) - 1)) + DigitValue(cs[Len(cs)])

AllDigits(cs) == cs # <<>> /\ \A i \in 1..Len(cs) : cs[i] \in Digit

\* str::parse::<i64>: an optional sign, then one or more decimal digits.
ParseI64(cs) ==
    IF AllDigits(cs) THEN [ok |-> TRUE, val |-> DigitsValue(cs)]
    ELSE IF cs # <<>> /\ cs[1] \in {"+", "-"} /\ AllDigits(Tail(cs))
    THEN [ok |-> TRUE,
          val |-> IF cs[1] = "-" THEN 0 - DigitsValue(Tail(cs))
                  ELSE DigitsValue(Tail(cs))]
    ELSE [ok |-> FALSE, val |-> 0]

\* Vec::get(index as usize): the element at that position, counted from 0.
\* A negative i64 becomes a usize of 2^63 or more, beyond any Vec's length.
Get(vec, index) ==
    IF index >= 0 /\ index < Len(vec) THEN <<vec[index + 1]>> ELSE <<>>

\* A push that puts the new element in front of the others.
PushFront(vec, item) == <<item>> \o vec

\* Vec::push.
Push(vec, item) == Append(vec, item)

\* generate_id: Some(last()?.id + 1), and unwrap_or_default at the caller.
GenerateId(vec) == IF vec = <<>> THEN 0 ELSE vec[Len(vec)].id + 1

\* ------------------------------------------------------------ the registry

\* The two name -> command maps main fills: the names are Command::names()
\* of each command (quit and help as the design names them).
\* A registry that also offers the message commands before login.
WelcomeCommandsWithMessages ==
    ("login" :> "login") @@ ("register" :> "register")
    @@ ("quit" :> "quit") @@ ("help" :> "help")
    @@ ("message" :> "message") @@ ("messages" :> "message") @@ ("msg" :> "message")

WelcomeCommands ==
    ("login" :> "login") @@ ("register" :> "register")
    @@ ("quit" :> "quit") @@ ("help" :> "help")

\* A registry that still offers login and register after login.
MessageCommandsWithLogin ==
    ("message" :> "message") @@ ("messages" :> "message") @@ ("msg" :> "message")
    @@ ("quit" :> "quit") @@ ("help" :> "help")
    @@ ("login" :> "login") @@ ("register" :> "register")

MessageCommands ==
    ("message" :> "message") @@ ("messages" :> "message") @@ ("msg" :> "message")
    @@ ("quit" :> "quit") @@ ("help" :> "help")

\* A handle that falls back on the other phase's map.
HandleEitherMap(st, line) ==
    IF line.blank THEN [ok |-> FALSE, cmd |-> "none", err |-> "Invalid command"]
    ELSE LET map == IF st.tag = "Failure"
                    THEN WelcomeCommands @@ MessageCommands
                    ELSE MessageCommands @@ WelcomeCommands
         IN  IF line.name \in DOMAIN map
             THEN [ok |-> TRUE, cmd |-> map[line.name], err |-> "none"]
             ELSE [ok |-> FALSE, cmd |-> "none", err |-> "Unknown command"]

\* CommandHandler::handle up to the call of execute: the command the line
\* resolves to under the session's login status, or the error.
Handle(st, line) ==
    IF line.blank THEN [ok |-> FALSE, cmd |-> "none", err |-> "Invalid command"]
    ELSE LET map == IF st.tag = "Failure" THEN WelcomeCommands ELSE MessageCommands
         IN  IF line.name \in DOMAIN map
             THEN [ok |-> TRUE, cmd |-> map[line.name], err |-> "none"]
             ELSE [ok |-> FALSE, cmd |-> "none", err |-> "Unknown command"]

\* Where execute of a command first suspends, by the match on its arguments.
MessagesEntry(args) ==
    CASE Len(args) = 1 /\ args[1] = "list" -> "msg_list"
      [] Len(args) = 1 /\ args[1] = "new" -> "new_subject"
      [] Len(args) = 2 /\ args[1] = "read" -> "msg_read"
      [] OTHER -> "msg_text"

Entry(cmd, args) ==
    CASE cmd = "login" -> "login_user"
      [] cmd = "register" -> "reg_user"
      [] cmd = "quit" -> "quit"
      [] cmd = "help" -> "help"
      [] cmd = "message" -> MessagesEntry(args)

\* ------------------------------------------------------------- the socket

IoError == "io error"

\* Session::send on a connection the peer closed succeeds (the bytes go to
\* the socket buffer) or fails; on an open connection it succeeds.
WritesOk(s) == IF conn[s] = "open" THEN {TRUE} ELSE {TRUE, FALSE}

\* Session::prompt: the trimmed line the client typed; at end of stream
\* read_line reads nothing, and the answer is the empty string.
Answers(s, typed) == IF conn[s] = "open" THEN typed ELSE {Eof}
LinesRead(s) == IF conn[s] = "open" THEN Lines ELSE {BlankLine}
PromptMayFail(s) == conn[s] = "closed"

\* --------------------------------------------------------- the session loop

store == <<users, messages, files, rlock, wb, proc>>

\* A command returns r to Session::run.
Return(s, r) ==
    /\ res' = [res EXCEPT ![s] = r]
    /\ loc' = [loc EXCEPT ![s] = NoLocals]
    /\ pc' = [pc EXCEPT ![s] = "returned"]

\* writeln of each of the lines, all of them sent.
Says(s, lines) == sent' = [sent EXCEPT ![s] = lines]

\* A prompt of a command fails: the error propagates out of execute.
PromptFails(s) ==
    /\ PromptMayFail(s)
    /\ Return(s, IoError)

Ended(s) == pc[s] \in {"done", "dead", "panic"}

\* main: the accept loop spawns a Session for a new connection.
Accept(s) ==
    /\ proc = "running"
    /\ Ended(s)
    /\ pc' = [pc EXCEPT ![s] = "welcome"]
    /\ status' = [status EXCEPT ![s] = LoggedOff]
    /\ conn' = [conn EXCEPT ![s] = "open"]
    /\ UNCHANGED <<load, store, loc, res, shown, sent>>

\* The peer closes its end of the connection.
PeerClose(s) ==
    /\ ~Ended(s)
    /\ conn[s] = "open"
    /\ conn' = [conn EXCEPT ![s] = "closed"]
    /\ UNCHANGED <<load, store, status, pc, loc, res, shown, sent>>

\* Session::run: the one-time welcome text.
Welcome(s) ==
    /\ pc[s] = "welcome"
    /\ \E ok \in WritesOk(s) :
          pc' = [pc EXCEPT ![s] = IF ok THEN "prompt" ELSE "dead"]
    /\ UNCHANGED <<load, store, status, conn, loc, res, shown, sent>>

\* Collections are bounded by how many commands that push are let in.
Pushing(k) ==
    Cardinality({t \in Sessions :
        pc[t] \in (IF k = "Users" THEN {"reg_user", "reg_pass", "reg_push"}
                   ELSE {"new_subject", "new_body", "new_push"})})

Room(cmd, args) ==
    CASE cmd = "register" -> Len(users) + Pushing("Users") < load.users
      [] cmd = "message" /\ MessagesEntry(args) = "new_subject" ->
            Len(messages) + Pushing("Messages") < load.messages
      [] OTHER -> TRUE

\* Session::run: prompt("> "), then CommandHandler::handle on the line, up to
\* where execute first suspends.
Dispatch(s) ==
    /\ pc[s] = "prompt"
    /\ wb[s] = <<>>       \* the pool has run the write before the next line comes
    /\ \/ /\ PromptMayFail(s)
          /\ pc' = [pc EXCEPT ![s] = "dead"]
          /\ UNCHANGED <<loc, res>>
       \/ \E line \in LinesRead(s) :
            LET h == Handle(status[s], line) IN
            /\ loc' = [loc EXCEPT ![s] =
                         [NoLocals EXCEPT !.cmd = h.cmd, !.line = line]]
            /\ IF h.ok
               THEN /\ Room(h.cmd, line.args)
                    /\ pc' = [pc EXCEPT ![s] = Entry(h.cmd, line.args)]
                    /\ UNCHANGED res
               ELSE /\ pc' = [pc EXCEPT ![s] = "returned"]
                    /\ res' = [res EXCEPT ![s] = h.err]
    /\ UNCHANGED <<load, store, status, conn, shown, sent>>

\* A loop that prompts again after every command that succeeded.
ReportThenPrompt(s) ==
    /\ pc[s] = "returned"
    /\ \E ok \in WritesOk(s) :
          pc' = [pc EXCEPT ![s] =
                   CASE res[s] = "Ok" -> "prompt"
                     [] res[s] = IoError -> "dead"
                     [] OTHER -> IF ok THEN "prompt" ELSE "dead"]
    /\ res' = [res EXCEPT ![s] = "none"]
    /\ loc' = [loc EXCEPT ![s] = NoLocals]
    /\ shown' = [shown EXCEPT ![s] = <<>>]
    /\ sent' = [sent EXCEPT ![s] = <<>>]
    /\ UNCHANGED <<load, store, status, conn>>

\* Session::run on what the command returned: an I/O failure ends the
\* session; any other failure is written as one line and the loop goes on;
\* after success the loop goes on unless the status is Disconnected.
Report(s) ==
    /\ pc[s] = "returned"
    /\ \E ok \in WritesOk(s) :
          pc' = [pc EXCEPT ![s] =
                   CASE res[s] = "Ok" /\ status[s].tag = "Disconnected" -> "done"
                     [] res[s] = "Ok" /\ status[s].tag # "Disconnected" -> "prompt"
                     [] res[s] = IoError -> "dead"
                     [] OTHER -> IF ok THEN "prompt" ELSE "dead"]
    /\ res' = [res EXCEPT ![s] = "none"]
    /\ loc' = [loc EXCEPT ![s] = NoLocals]
    /\ shown' = [shown EXCEPT ![s] = <<>>]
    /\ sent' = [sent EXCEPT ![s] = <<>>]
    /\ UNCHANGED <<load, store, status, conn>>

\* ------------------------------------------------------------------- Login

LoginUsername(s) ==
    /\ pc[s] = "login_user"
    /\ \/ PromptFails(s)
       \/ \E username \in Answers(s, load.usernames) :
            /\ loc' = [loc EXCEPT ![s].username = username]
            /\ pc' = [pc EXCEPT ![s] = "login_pass"]
            /\ UNCHANGED res
    /\ UNCHANGED <<load, store, status, conn, shown, sent>>

LoginPassword(s) ==
    /\ pc[s] = "login_pass"
    /\ \/ PromptFails(s)
       \/ \E password \in Answers(s, load.passwords) :
            /\ loc' = [loc EXCEPT ![s].password = password]
            /\ pc' = [pc EXCEPT ![s] = "login_check"]
            /\ UNCHANGED res
    /\ UNCHANGED <<load, store, status, conn, shown, sent>>

\* users.iter().filter(|u| u.username == username).collect().first()
FindUser(vec, username) ==
    LET found == SelectSeq(vec, LAMBDA u : u.username = username)
    IN  IF found = <<>> THEN <<>> ELSE <<found[1]>>

\* The block under the Users read guard, then the branch on valid_password.
LoginCheck(s) ==
    /\ pc[s] = "login_check"
    /\ LET user == FindUser(users, loc[s].username) IN
       IF user = <<>>
       THEN /\ Return(s, "Could not find user")
            /\ UNCHANGED <<status, sent>>
       ELSE IF ~Verify(loc[s].password, user[1].password)
       THEN /\ status' = [status EXCEPT ![s] = LoggedOff]
            /\ \E ok \in WritesOk(s) :
                 IF ok
                 THEN /\ pc' = [pc EXCEPT ![s] = "login_user"]
                      /\ loc' = [loc EXCEPT ![s].username = "", ![s].password = ""]
                      /\ Says(s, <<"Login failed">>)
                      /\ UNCHANGED res
                 ELSE Return(s, IoError) /\ UNCHANGED sent
       ELSE /\ status' = [status EXCEPT ![s] = LoggedOn(loc[s].username)]
            /\ \E ok \in WritesOk(s) :
                 IF ok
                 THEN Return(s, "Ok") /\ Says(s, <<"Login successful">>)
                 ELSE Return(s, IoError) /\ UNCHANGED sent
    /\ UNCHANGED <<load, store, conn, shown>>

\* ---------------------------------------------------------------- Register

RegisterUsername(s) ==
    /\ pc[s] = "reg_user"
    /\ \/ PromptFails(s)
       \/ \E username \in Answers(s, load.usernames) :
            /\ loc' = [loc EXCEPT ![s].username = username]
            /\ pc' = [pc EXCEPT ![s] = "reg_pass"]
            /\ UNCHANGED res
    /\ UNCHANGED <<load, store, status, conn, shown, sent>>

\* The password prompt, then the User built from generate_id (under its own
\* read guard, dropped when generate_id returns) and bcrypt::hash.
RegisterPassword(s) ==
    /\ pc[s] = "reg_pass"
    /\ \/ PromptFails(s)
       \/ \E password \in Answers(s, load.passwords) :
            /\ loc' = [loc EXCEPT ![s].item =
                         <<[id |-> GenerateId(users),
                            username |-> loc[s].username,
                            password |-> Hash(password)]>>]
            /\ pc' = [pc EXCEPT ![s] = "reg_push"]
            /\ UNCHANGED res
    /\ UNCHANGED <<load, store, status, conn, shown, sent>>

\* users.write().await.push(user): waits for the readers to leave.
RegisterPush(s) ==
    /\ pc[s] = "reg_push"
    /\ rlock["Users"] = {}
    /\ users' = Push(users, loc[s].item[1])
    /\ pc' = [pc EXCEPT ![s] = "save_create"]
    /\ UNCHANGED <<load, messages, files, rlock, wb, proc, status, conn, loc, res,
                   shown, sent>>

\* ---------------------------------------------------------------- Messages

\* "No sub commands", "Unknown sub command", "Show usage".
MessagesText(s) ==
    /\ pc[s] = "msg_text"
    /\ \E ok \in WritesOk(s) :
         IF ok
         THEN /\ Return(s, "Ok")
              /\ Says(s, <<CASE loc[s].line.args = <<>> -> "No sub commands"
                             [] Len(loc[s].line.args) = 1 -> "Unknown sub command"
                             [] OTHER -> "Show usage">>)
         ELSE Return(s, IoError) /\ UNCHANGED sent
    /\ UNCHANGED <<load, store, status, conn, shown>>

\* list: clone the collection under the read guard, then one line a message.
MessagesList(s) ==
    /\ pc[s] = "msg_list"
    /\ \E ok \in (IF messages = <<>> THEN {TRUE} ELSE WritesOk(s)) :
          Return(s, IF ok THEN "Ok" ELSE IoError)
    /\ UNCHANGED <<load, store, status, conn, shown, sent>>

\* read: parse the reference, get the message at that index, write it.
MessagesRead(s) ==
    /\ pc[s] = "msg_read"
    /\ LET index == ParseI64(loc[s].line.args[2]) IN
       IF ~index.ok
       THEN Return(s, "invalid digit found in string") /\ UNCHANGED shown
       ELSE LET message == Get(messages, index.val) IN
            IF message = <<>>
            THEN Return(s, "Invalid message id") /\ UNCHANGED shown
            ELSE \E ok \in WritesOk(s) :
                   IF ok
                   THEN shown' = [shown EXCEPT ![s] = message] /\ Return(s, "Ok")
                   ELSE Return(s, IoError) /\ UNCHANGED shown
    /\ UNCHANGED <<load, store, status, conn, sent>>

\* new: the subject prompt, then the instructions.
NewSubject(s) ==
    /\ pc[s] = "new_subject"
    /\ \/ PromptFails(s)
       \/ \E subject \in Answers(s, Subjects) : \E ok \in WritesOk(s) :
            IF ok
            THEN /\ loc' = [loc EXCEPT ![s].subject = subject]
                 /\ pc' = [pc EXCEPT ![s] = "new_body"]
                 /\ UNCHANGED res
            ELSE Return(s, IoError)
    /\ UNCHANGED <<load, store, status, conn, shown, sent>>

\* new: one more line of the body.
NewBodyLine(s) ==
    /\ pc[s] = "new_body"
    /\ Len(loc[s].body) < MaxBodyLines
    /\ \E line \in Answers(s, BodyLines) :
          loc' = [loc EXCEPT ![s].body = Append(@, line)]
    /\ UNCHANGED <<load, store, status, conn, pc, res, shown, sent>>

\* new: the body loop ends, on a "." line or on a prompt that failed; then the
\* Message is built from the login status and generate_id.
NewBodyEnd(s) ==
    /\ pc[s] = "new_body"
    /\ conn[s] = "open" \/ PromptMayFail(s)
    /\ IF status[s].tag = "Success"
       THEN /\ loc' = [loc EXCEPT
                         ![s].item =
                            <<[id |-> GenerateId(messages),
                               username |-> status[s].username,
                               subject |-> loc[s].subject,
                               body |-> loc[s].body]>>,
                         ![s].dropped =
                            IF conn[s] = "open" THEN "none" ELSE IoError]
            /\ pc' = [pc EXCEPT ![s] = "new_push"]
       ELSE /\ pc' = [pc EXCEPT ![s] = "panic"]   \* todo!()
            /\ UNCHANGED loc
    /\ UNCHANGED <<load, store, status, conn, res, shown, sent>>

\* messages.write().await.push(message): waits for the readers to leave.
NewPush(s) ==
    /\ pc[s] = "new_push"
    /\ rlock["Messages"] = {}
    /\ messages' = Push(messages, loc[s].item[1])
    /\ loc' = [loc EXCEPT ![s].subject = "", ![s].body = <<>>]
    /\ pc' = [pc EXCEPT ![s] = "save_create"]
    /\ UNCHANGED <<load, users, files, rlock, wb, proc, status, conn, res, shown,
                   sent>>

\* ---------------------------------------------------------- AppState::save

\* Every save called with AppStateKind::Users.
KindOfUsers(cmd) == "Users"

\* The kind each command passes to save.
KindOf(cmd) == IF cmd = "register" THEN "Users" ELSE "Messages"
Collection(k) == IF k = "Users" THEN users ELSE messages

\* File::create: the file exists and is empty.
SaveCreate(s) ==
    /\ pc[s] = "save_create"
    /\ files' = [files EXCEPT ![KindOf(loc[s].cmd)] = EmptyFile]
    /\ pc' = [pc EXCEPT ![s] = "save_lock"]
    /\ UNCHANGED <<load, users, messages, rlock, wb, proc, status, conn, loc, res,
                   shown, sent>>

\* The read guard of the collection, held until save returns.
SaveLock(s) ==
    /\ pc[s] = "save_lock"
    /\ rlock' = [rlock EXCEPT ![KindOf(loc[s].cmd)] = @ \cup {s}]
    /\ pc' = [pc EXCEPT ![s] = "save_write"]
    /\ UNCHANGED <<load, users, messages, files, wb, proc, status, conn, loc, res,
                   shown, sent>>

\* The two confirmations of Register, as far as the socket takes them.
Confirmations(s) ==
    {<<"Registration successful", "Login successful">>}
    \cup (IF conn[s] = "open" THEN {} ELSE {<<>>, <<"Registration successful">>})

\* write_all of the serialized collection: tokio's File hands the bytes to
\* the blocking pool and returns, and save returns without a flush.  Then
\* what the command does after save: Register logs the user in and confirms,
\* "new" returns.
SaveWrite(s) ==
    /\ pc[s] = "save_write"
    /\ wb[s] = <<>>
    /\ LET k == KindOf(loc[s].cmd) IN
       /\ wb' = [wb EXCEPT ![s] = <<[kind |-> k, data |-> Collection(k)]>>]
       /\ rlock' = [rlock EXCEPT ![k] = @ \ {s}]
    /\ IF loc[s].cmd = "register"
       THEN /\ status' = [status EXCEPT ![s] = LoggedOn(loc[s].username)]
            /\ \E lines \in Confirmations(s) :
                 /\ Says(s, lines)
                 /\ Return(s, IF Len(lines) = 2 THEN "Ok" ELSE IoError)
       ELSE /\ Return(s, "Ok")
            /\ UNCHANGED <<status, sent>>
    /\ UNCHANGED <<load, users, messages, files, proc, conn, shown>>

\* What a file holds after data is written over it from its start: the
\* number of entries stands for the number of bytes.
Overwrite(file, data) ==
    IF file.st \in {"json", "malformed"} /\ Len(file.data) > Len(data)
    THEN MalformedFile(file.data)
    ELSE JsonFile(data)

\* The blocking pool runs the write a save of session s left behind.
WriteBack(s) ==
    /\ wb[s] # <<>>
    /\ files' = [files EXCEPT ![wb[s][1].kind] = Overwrite(@, wb[s][1].data)]
    /\ wb' = [wb EXCEPT ![s] = <<>>]
    /\ UNCHANGED <<load, users, messages, rlock, proc, status, conn, pc, loc, res,
                   shown, sent>>

SaveError == "save failed"

\* File::create fails (no space, no permission): save returns the error.
SaveFails(s) ==
    /\ pc[s] = "save_create"
    /\ Return(s, SaveError)
    /\ UNCHANGED <<load, store, status, conn, shown, sent>>

\* ------------------------------------------------- AppState::from_file, main

Fields(k) ==
    IF k = "Users" THEN {"id", "username", "password"}
    ELSE {"id", "username", "subject", "body"}

\* serde_json::from_str into the Vec of the kind: every object must have the
\* fields of the struct; fields it does not have are ignored.
FromStr(k, data) ==
    IF \A i \in 1..Len(data) : Fields(k) \subseteq DOMAIN data[i]
    THEN [ok |-> TRUE,
          vec |-> [i \in 1..Len(data) |-> [f \in Fields(k) |-> data[i][f]]]]
    ELSE [ok |-> FALSE, vec |-> <<>>]

\* One collection of from_file: empty when the file does not exist, parsed
\* when it does.
LoadFile(k, file) ==
    CASE file.st = "absent" -> [ok |-> TRUE, vec |-> <<>>]
      [] file.st = "json" -> FromStr(k, file.data)
      [] OTHER -> [ok |-> FALSE, vec |-> <<>>]

\* A from_file that takes a file it cannot parse for an empty collection.
FromFileLenient(fs) ==
    [ok |-> TRUE,
     users |-> LoadFile("Users", fs["Users"]).vec,
     messages |-> LoadFile("Messages", fs["Messages"]).vec]

\* AppState::from_file: both collections, or the first error.
FromFile(fs) ==
    LET u == LoadFile("Users", fs["Users"])
        m == LoadFile("Messages", fs["Messages"])
    IN  IF u.ok /\ m.ok
        THEN [ok |-> TRUE, users |-> u.vec, messages |-> m.vec]
        ELSE [ok |-> FALSE, users |-> <<>>, messages |-> <<>>]

\* The process stops (a crash, a kill) with all its tasks, connections and
\* unwritten file data, and main starts again: from_file, then the accept
\* loop, or the end of main when from_file fails.
Restart ==
    /\ load.restarts
    /\ proc = "running"
    /\ LET state == FromFile(files) IN
       /\ proc' = IF state.ok THEN "running" ELSE "failed"
       /\ users' = state.users
       /\ messages' = state.messages
    /\ rlock' = [k \in Kinds |-> {}]
    /\ wb' = [s \in Sessions |-> <<>>]
    /\ status' = [s \in Sessions |-> LoggedOff]
    /\ conn' = [s \in Sessions |-> "closed"]
    /\ pc' = [s \in Sessions |-> "dead"]
    /\ loc' = [s \in Sessions |-> NoLocals]
    /\ res' = [s \in Sessions |-> "none"]
    /\ shown' = [s \in Sessions |-> <<>>]
    /\ sent' = [s \in Sessions |-> <<>>]
    /\ UNCHANGED <<load, files>>

\* ------------------------------------------------------------- Quit, Help

\* Quit: the status becomes Disconnected.
Quit(s) ==
    /\ pc[s] = "quit"
    /\ status' = [status EXCEPT ![s] = Disconnected]
    /\ Return(s, "Ok")
    /\ UNCHANGED <<load, store, conn, shown, sent>>

\* Help: the names and help texts of the commands of the current phase.
Help(s) ==
    /\ pc[s] = "help"
    /\ \E ok \in WritesOk(s) : Return(s, IF ok THEN "Ok" ELSE IoError)
    /\ UNCHANGED <<load, store, status, conn, shown, sent>>

\* ------------------------------------------------- a client that stalls

\* A list that writes its rows while it iterates the guard.
HeldAtWriteList(at) == IF at = "msg_list" THEN {"Messages"} ELSE {}

\* The read guards a command still holds when it calls writeln: the blocks
\* that take the guard in Login, list and read end before the writeln.
HeldAtWrite(at) == {}

\* The step the session is at ends in a writeln to the client.
WritesAt(s) ==
    CASE pc[s] = "login_check" -> FindUser(users, loc[s].username) # <<>>
      [] pc[s] = "msg_list" -> messages # <<>>
      [] pc[s] = "msg_read" ->
            LET index == ParseI64(loc[s].line.args[2])
            IN  index.ok /\ Get(messages, index.val) # <<>>
      [] pc[s] = "msg_text" -> TRUE
      [] OTHER -> FALSE

\* The client has stopped reading: the command runs up to its writeln, which
\* never completes, and the task stays suspended there.
WriteBlocks(s) ==
    /\ conn[s] = "open"
    /\ WritesAt(s)
    /\ status' =
          IF pc[s] = "login_check"
          THEN [status EXCEPT ![s] =
                  IF Verify(loc[s].password,
                            FindUser(users, loc[s].username)[1].password)
                  THEN LoggedOn(loc[s].username) ELSE LoggedOff]
          ELSE status
    /\ rlock' = [k \in Kinds |->
                   IF k \in HeldAtWrite(pc[s]) THEN rlock[k] \cup {s} ELSE rlock[k]]
    /\ pc' = [pc EXCEPT ![s] = "stuck"]
    /\ loc' = [loc EXCEPT ![s] = [NoLocals EXCEPT !.cmd = loc[s].cmd]]
    /\ UNCHANGED <<load, users, messages, files, wb, proc, conn, res, shown, sent>>

\* ------------------------------------------------------- the specification

Step(s) ==
    \/ Accept(s)
    \/ Welcome(s)
    \/ Dispatch(s)
    \/ Report(s)
    \/ LoginUsername(s)
    \/ LoginPassword(s)
    \/ LoginCheck(s)
    \/ RegisterUsername(s)
    \/ RegisterPassword(s)
    \/ RegisterPush(s)
    \/ MessagesText(s)
    \/ MessagesList(s)
    \/ MessagesRead(s)
    \/ NewSubject(s)
    \/ NewBodyLine(s)
    \/ NewBodyEnd(s)
    \/ NewPush(s)
    \/ SaveCreate(s)
    \/ SaveLock(s)
    \/ SaveWrite(s)
    \/ WriteBack(s)
    \/ Quit(s)
    \/ Help(s)

\* The sessions over connections that stay open.
Next == \E s \in Sessions : Step(s)

Spec == Init /\ [][Next]_vars

\* The sessions, one of them over connections its peer may close at any time.
Closing == {"s1"}
NextIo == (\E s \in Sessions : Step(s)) \/ (\E s \in Closing : PeerClose(s))

SpecIo == Init /\ [][NextIo]_vars

\* The sessions over a disk that File::create may fail on.
NextDisk == \E s \in Sessions : Step(s) \/ SaveFails(s)

SpecDisk == Init /\ [][NextDisk]_vars

\* The sessions, one of them with a client that may stop reading.
Stalling == {"s1"}
NextStall == (\E s \in Sessions : Step(s)) \/ (\E s \in Stalling : WriteBlocks(s))

SpecStall == Init /\ [][NextStall]_vars

\* The sessions of a process that may stop and be started again.
NextRestart == Next \/ Restart

SpecRestart == Init /\ [][NextRestart]_vars

\* ================================================================ claims

Indices(vec) == 1..Len(vec)
IdsIncreasing(vec) == \A i, j \in Indices(vec) : i < j => vec[i].id < vec[j].id
UsernamesDistinct(vec) ==
    \A i, j \in Indices(vec) : i # j => vec[i].username # vec[j].username

RECURSIVE MaxId(_)
MaxId(vec) ==
    IF Len(vec) = 1 THEN vec[1].id
    ELSE LET m == MaxId(Tail(vec)) IN IF vec[1].id > m THEN vec[1].id ELSE m

\* The id the design gives the next entry: max(existing ids) + 1, or 0.
NextId(vec) == IF vec = <<>> THEN 0 ELSE MaxId(vec) + 1

\* C1: Register calls with pairwise distinct usernames, in any interleaving,
\* leave a Users collection whose ids are pairwise distinct and strictly
\* increasing in insertion order.
C1_DistinctRegistrationsIdsIncreasing ==
    UsernamesDistinct(users) => IdsIncreasing(users)

\* C2: no two entries of the Users collection have the same username.
C2_UsernamesUnique == UsernamesDistinct(users)

\* C3: a Login attempt sets the status to LoggedOn(username) if and only if
\* Users holds a user with that username whose stored hash verifies the
\* password; after any other attempt the status is LoggedOff.
C3_LoginIffUserVerifies ==
    [][\A s \in Sessions :
        pc[s] = "login_check" /\ pc'[s] # "login_check" =>
            LET known == \E i \in Indices(users) :
                            /\ users[i].username = loc[s].username
                            /\ Verify(loc[s].password, users[i].password)
            IN  /\ (status'[s] = LoggedOn(loc[s].username)) <=> known
                /\ ~known => status'[s] = LoggedOff]_vars

\* C4: a PostMessage of a LoggedOn session appends exactly one message, whose
\* id is the maximum id in the collection it is appended to plus 1, or 0 if
\* that collection is empty.
C4_PostAppendsMaxPlusOne ==
    [][\A s \in Sessions :
        pc[s] = "new_push" /\ pc'[s] # "new_push" =>
            /\ Len(messages') = Len(messages) + 1
            /\ SubSeq(messages', 1, Len(messages)) = messages
            /\ messages'[Len(messages')].id = NextId(messages)]_vars

\* C5: in any interleaving of PostMessage calls the ids of the Messages
\* collection are pairwise distinct and strictly increasing.
C5_MessageIdsIncreasing == IdsIncreasing(messages)

\* The reference of the ReadMessage a session is executing.
Reference(s) == ParseI64(loc[s].line.args[2])
Stored(n) == \E i \in Indices(messages) : messages[i].id = n

\* C6: ReadMessage with the numeric argument n writes the message whose stored
\* id is n, and never a message whose stored id differs from n.
C6_ReadResolvesById ==
    [][\A s \in Sessions :
        pc[s] = "msg_read" /\ pc'[s] # "msg_read" =>
            /\ shown'[s] # <<>> =>
                  Reference(s).ok /\ shown'[s][1].id = Reference(s).val
            /\ Reference(s).ok /\ Stored(Reference(s).val) =>
                  shown'[s] # <<>> /\ res'[s] = "Ok"]_vars

\* C7: ReadMessage with a reference that resolves to no message (not a number,
\* negative, or the id of no stored message) fails with an error of the
\* command, writes no message, and leaves the status and both collections
\* unchanged.
C7_UnresolvableReadFails ==
    [][\A s \in Sessions :
        (/\ pc[s] = "msg_read" /\ pc'[s] # "msg_read"
         /\ (~Reference(s).ok \/ Reference(s).val < 0 \/ ~Stored(Reference(s).val)))
        => (/\ res'[s] \notin {"Ok", "none", IoError}
            /\ shown'[s] = <<>>
            /\ UNCHANGED <<status, users, messages>>)]_vars

\* The names the design registers for each phase.
PhaseNames(st) ==
    IF st.tag = "Failure" THEN {"login", "register", "quit", "help"}
    ELSE {"message", "messages", "msg", "quit", "help"}

C10_PhaseGatesCommands ==
    \A s \in Sessions :
        /\ loc[s].cmd = "message" => status[s].tag = "Success"
        /\ loc[s].cmd \in {"login", "register"} => status[s].tag = "Failure"
        /\ pc[s] # "panic"

C10_Witness ==
    \E s, t \in Sessions :
        /\ pc[s] = "new_body" /\ status[s].tag = "Success"
        /\ pc[t] = "login_check" /\ status[t].tag = "Failure"

C12_TransportFailureIsFatal ==
    [][\A s \in Sessions :
        /\ (pc[s] = "returned" /\ res[s] = IoError /\ pc'[s] # "returned")
           => pc'[s] = "dead"
        /\ (loc[s].dropped = IoError /\ pc'[s] # pc[s])
           => UNCHANGED <<users, messages>>]_vars

\* Where a session is about to call Session::prompt.
PromptPcs ==
    {"prompt", "login_user", "login_pass", "reg_user", "reg_pass",
     "new_subject", "new_body"}

\* C13: once the peer has closed the connection the next prompt of the
\* session fails with an I/O error, which ends the command and the session:
\* no loop (run, the retry loop of Login, the body loop of PostMessage) takes
\* an answer from a closed connection and goes on.
C13_PromptFailsOnClosedConnection ==
    [][\A s \in Sessions :
        (/\ conn[s] = "closed" /\ pc[s] \in PromptPcs
         /\ (pc'[s] # pc[s] \/ loc'[s] # loc[s]))
        => \/ pc'[s] = "dead"
           \/ pc'[s] = "returned" /\ res'[s] = IoError]_vars

\* C14: when File::create of a save fails, the Register or PostMessage that
\* called it returns the failure, the user or message it built is not in the
\* in-memory collection afterwards, and a Register does not log in.
C14_FailedSaveLeavesNothingBehind ==
    [][\A s \in Sessions :
        (pc[s] = "save_create" /\ pc'[s] \notin {"save_create", "save_lock"})
        => /\ pc'[s] = "returned" /\ res'[s] = SaveError
           /\ status'[s] = status[s]
           /\ LET after == IF loc[s].cmd = "register" THEN users' ELSE messages'
              IN  \A i \in Indices(after) : after[i] # loc[s].item[1]]_vars

\* A Register or a PostMessage of the session is in progress.
InProgress(s) ==
    pc[s] \in {"reg_user", "reg_pass", "reg_push", "new_subject", "new_body",
               "new_push", "save_create", "save_lock", "save_write"}

\* C15: whenever no session is inside a Register or a PostMessage, the file
\* of each collection loads to exactly the in-memory collection, so a restart
\* at that moment finds the users and messages of every completed command.
C15_SnapshotsMatchWhenIdle ==
    (\A s \in Sessions : ~InProgress(s))
    => \A k \in Kinds :
          LET loaded == LoadFile(k, files[k])
          IN  loaded.ok /\ loaded.vec = Collection(k)

\* C16: a Login attempt that fails, for an unknown username or for a wrong
\* password, is reported to the client and followed by a fresh username
\* prompt inside Login: Login returns only after an attempt that succeeded or
\* with a transport failure.
C16_FailedLoginReprompts ==
    [][\A s \in Sessions :
        (/\ pc[s] = "login_check" /\ pc'[s] # "login_check"
         /\ status'[s].tag # "Success")
        => \/ pc'[s] = "login_user" /\ sent'[s] = <<"Login failed">>
           \/ pc'[s] = "returned" /\ res'[s] = IoError]_vars

\* The file of the collection loads, and what it loads to holds the item.
Persisted(k, fs, item) ==
    LET loaded == LoadFile(k, fs[k])
    IN  loaded.ok /\ \E i \in Indices(loaded.vec) : loaded.vec[i] = item

\* C17: a Register that succeeds leaves the session LoggedOn with the
\* username it registered, has sent "Registration successful" and then "Login
\* successful", and sets the status only when the new user is in the Users
\* collection and in the persisted snapshot.
C17_RegisterLogsInAfterPersisting ==
    [][\A s \in Sessions :
        /\ (loc[s].cmd = "register" /\ pc'[s] = "returned" /\ res'[s] = "Ok")
           => /\ status'[s] = LoggedOn(loc[s].username)
              /\ sent'[s] = <<"Registration successful", "Login successful">>
        /\ (loc[s].cmd = "register" /\ status'[s].tag = "Success")
           => /\ \E i \in Indices(users') : users'[i] = loc[s].item[1]
              /\ Persisted("Users", files', loc[s].item[1])]_vars

\* The file of the collection holds a document of the collection's entries.
WellFormed(k) ==
    /\ files[k].st = "json"
    /\ \A i \in Indices(files[k].data) : Fields(k) \subseteq DOMAIN files[k].data[i]

\* C18: when main starts, each collection is loaded on its own: a file that
\* does not exist gives the empty collection, a well-formed file its entries,
\* and main goes on to serve; a file that exists and is not a well-formed
\* document makes the startup fail, and then no connection is ever accepted.
\* (A step that leaves every connection closed is a start of main.)
C18_StartupLoadsOrFails ==
    [][/\ (\A s \in Sessions : conn'[s] = "closed")
          => IF \A k \in Kinds : files[k].st = "absent" \/ WellFormed(k)
             THEN /\ proc' = "running"
                  /\ users' = IF files["Users"].st = "absent" THEN <<>>
                              ELSE files["Users"].data
                  /\ messages' = IF files["Messages"].st = "absent" THEN <<>>
                                 ELSE files["Messages"].data
             ELSE proc' = "failed"
       /\ proc = "failed"
          => proc' = "failed" /\ \A s \in Sessions : pc'[s] = "dead"]_vars

C18_Witness ==
    /\ proc = "running"
    /\ \A s \in Sessions : conn[s] = "closed"
    /\ users # <<>>
    /\ files["Messages"].st = "absent"

SavePcs == {"save_create", "save_lock", "save_write"}

IsPrefix(a, b) == Len(a) <= Len(b) /\ SubSeq(b, 1, Len(a)) = a

\* C20: both collections are append-only: over every step of every session
\* the collection before is a prefix of the collection after; Users changes
\* only in the push of a Register and Messages only in the push of a
\* PostMessage.
C20_CollectionsAppendOnly ==
    [][/\ IsPrefix(users, users')
       /\ IsPrefix(messages, messages')
       /\ users' # users
          => \E s \in Sessions :
                loc[s].cmd = "register" /\ pc[s] = "reg_push" /\ pc'[s] # pc[s]
       /\ messages' # messages
          => \E s \in Sessions :
                loc[s].cmd = "message" /\ pc[s] = "new_push" /\ pc'[s] # pc[s]]_vars

C20_Witness ==
    /\ Len(messages) = MaxMessages
    /\ users # <<>>
    /\ \E s \in Sessions : pc[s] = "msg_list"

\* Where a task is suspended on the socket of its own client.
NetworkWaitPcs == PromptPcs \cup {"stuck"}

====
